---- MODULE Spec2Model ----
(***************************************************************************)
(* Model of crates/evm/src/executor/inspector/cheatcodes/util.rs:          *)
(* with_journaled_account, process_create, parse_private_key,              *)
(* check_if_fixed_gas_limit and is_potential_precompile.                   *)
(*                                                                         *)
(* Fixed-width integers are kept at their width.  A u64 is a sequence of 8 *)
(* base-256 digits and a U256 a sequence of 32 base-256 digits, least      *)
(* significant digit first (the limb order of the U256 types).  Byte       *)
(* arrays (Address, Bytes, [u8; 32]) are sequences in memory order.        *)
(***************************************************************************)
EXTENDS Integers, Sequences, FiniteSets, TLC

VARIABLES
    state,          \* JournaledState.state: loaded address -> Account
    db,             \* the backend: basic account infos and code by hash
    call,           \* the CreateInputs of the last creation request
    ret,            \* the last operation: its arguments, result, backend reads
    nops,           \* number of operations run so far
    private_key,    \* argument of parse_private_key
    env,            \* env.tx.gas_limit and env.block.gas_limit
    call_gas_limit, \* argument of check_if_fixed_gas_limit
    address,        \* argument of is_potential_precompile
    out             \* result of the last pure function applied

vars == <<state, db, call, ret, nops, private_key, env, call_gas_limit, address, out>>

journalVars == <<state, db, call, ret, nops>>
pureVars == <<private_key, env, call_gas_limit, address, out>>

-----------------------------------------------------------------------------
(* Bounds *)

MaxOps == 3        \* operations in one run
MaxCodeLen == 2    \* length of an init-code payload

-----------------------------------------------------------------------------
(* Bytes, options and fixed-width integers *)

None == <<>>
Some(x) == <<x>>
IsSome(o) == Len(o) = 1
Unwrap(o) == o[1]

Reverse(s) == [i \in 1..Len(s) |-> s[Len(s) + 1 - i]]

Repeat(b, n) == [i \in 1..n |-> b]

\* The least significant digit first digits of a small number, at width n.
Digits(v, n) == [i \in 1..n |-> IF i = 1 THEN v % 256 ELSE IF i = 2 THEN v \div 256 ELSE 0]

U64(v) == Digits(v, 8)
U64_MAX == Repeat(255, 8)

RECURSIVE AddOneFrom(_, _)
\* d + 1 modulo 256^Len(d), the carry entering at digit i.
AddOneFrom(d, i) ==
    IF i > Len(d) THEN d
    ELSE IF d[i] = 255 THEN AddOneFrom([d EXCEPT ![i] = 0], i + 1)
    ELSE [d EXCEPT ![i] = d[i] + 1]

wrapping_add_one(n) == AddOneFrom(n, 1)

\* U256::from_be_bytes / to_big_endian: most significant byte first.
from_be_bytes(bytes) == Reverse(bytes)

to_big_endian_le(u) == u

to_big_endian(u) == Reverse(u)

RECURSIVE LtFrom(_, _, _)
\* Comparison of two digit sequences of one width from digit i downwards.
LtFrom(a, b, i) ==
    IF i = 0 THEN FALSE
    ELSE IF a[i] < b[i] THEN TRUE
    ELSE IF a[i] > b[i] THEN FALSE
    ELSE LtFrom(a, b, i - 1)

U256Lt(a, b) == LtFrom(a, b, 32)

U256_ZERO == Repeat(0, 32)

-----------------------------------------------------------------------------
(* Addresses *)

with_last_byte(b) == [i \in 1..20 |-> IF i = 20 THEN b ELSE 0]

ADDRESS_ZERO == Repeat(0, 20)

DEFAULT_CREATE2_DEPLOYER ==
    <<78, 89, 180, 72, 71, 179, 121, 87, 133, 136, 146, 12, 167, 143, 191, 38, 192, 180, 149, 108>>

\* The broadcast sender of a script and the contract that asks for the creation.
Alice == <<24, 1, 0, 0, 0, 0, 0, 0, 0, 0, 0, 0, 0, 0, 0, 0, 0, 0, 0, 1>>
ScriptCaller == <<113, 9, 112, 158, 207, 169, 26, 128, 98, 111, 243, 152, 157, 104, 246, 127, 91, 29, 209, 45>>

Senders == {Alice, DEFAULT_CREATE2_DEPLOYER}

RECURSIVE AddressLtFrom(_, _, _)
\* The derived ordering of a byte array: lexicographic from the first byte.
AddressLtFrom(a, b, i) ==
    IF i > Len(a) THEN FALSE
    ELSE IF a[i] < b[i] THEN TRUE
    ELSE IF a[i] > b[i] THEN FALSE
    ELSE AddressLtFrom(a, b, i + 1)

AddressLtLastByte(a, b) == a[20] < b[20]

AddressLt(a, b) == AddressLtFrom(a, b, 1)

-----------------------------------------------------------------------------
(* The backend and the journal *)

KECCAK_EMPTY == "KECCAK_EMPTY"
PROXY_HASH == "PROXY_HASH"

ProxyCode == <<127, 255, 96>>

\* Nonces a script sets: one whose increment carries into the next digit, and
\* the largest u64.
NonceSamples == {U64(255), U64_MAX}

AccountInfo(nonce, code_hash, code) == [nonce |-> nonce, code_hash |-> code_hash, code |-> code]

\* Account::new_not_existing(): default info, present and empty code.
new_not_existing == [info |-> AccountInfo(U64(0), KECCAK_EMPTY, Some(<<>>)), touched |-> FALSE]

\* What the backend may hold for the deployer proxy: no account, or an account
\* whose code is not pulled, is empty, or is the proxy's code.
ProxyBasics ==
    {None} \cup {Some(AccountInfo(U64(1), PROXY_HASH, c)) : c \in {None, Some(<<>>), Some(ProxyCode)}}

Backends ==
    {[basic |-> [a \in Senders |-> IF a = DEFAULT_CREATE2_DEPLOYER THEN p
                                   ELSE Some(AccountInfo(U64(0), KECCAK_EMPTY, Some(<<>>)))],
      code  |-> [h \in {KECCAK_EMPTY, PROXY_HASH} |-> IF h = PROXY_HASH THEN c ELSE <<>>]]
        : p \in ProxyBasics, c \in {<<>>, ProxyCode}}

\* JournaledState::load_account(addr, db): a loaded account is left alone; an
\* unloaded one is fetched from the backend, which may fail (io = FALSE).
load_account(js, backend, addr, io) ==
    IF addr \in DOMAIN js THEN [ok |-> TRUE, js |-> js, reads |-> {}]
    ELSE IF ~io THEN [ok |-> FALSE, js |-> js, reads |-> {<<"basic", addr>>}]
    ELSE LET b == backend.basic[addr]
             acc == IF IsSome(b) THEN [info |-> Unwrap(b), touched |-> FALSE] ELSE new_not_existing
         IN  [ok |-> TRUE,
              js |-> [a \in DOMAIN js \cup {addr} |-> IF a = addr THEN acc ELSE js[a]],
              reads |-> {<<"basic", addr>>}]

touch_skip(js, addr) == js

\* JournaledState::touch(addr): marks a loaded account touched.
touch(js, addr) ==
    IF addr \in DOMAIN js THEN [js EXCEPT ![addr].touched = TRUE] ELSE js

-----------------------------------------------------------------------------
(* with_journaled_account *)

\* The closures applied to the account: one that only reads the nonce and
\* one that sets it. Each returns the nonce it found.
Mutators == {[f |-> "get_nonce"]} \cup {[f |-> "set_nonce", nonce |-> n] : n \in NonceSamples}

Apply(f, account) ==
    [account |-> IF f.f = "set_nonce" THEN [account EXCEPT !.info.nonce = f.nonce] ELSE account,
     r |-> account.info.nonce]

with_journaled_account(js, backend, addr, f, io) ==
    LET loaded == load_account(js, backend, addr, io)
    IN  IF ~loaded.ok
        THEN [js |-> loaded.js, res |-> [kind |-> "Err", err |-> "DatabaseError"],
              reads |-> loaded.reads, applied |-> 0]
        ELSE LET touched == touch(loaded.js, addr)
             IN  IF addr \notin DOMAIN touched
                 THEN [js |-> touched, res |-> [kind |-> "Panic", msg |-> "account loaded"],
                       reads |-> loaded.reads, applied |-> 0]
                 ELSE LET a == Apply(f, touched[addr])
                      IN  [js |-> [touched EXCEPT ![addr] = a.account],
                           res |-> [kind |-> "Ok", r |-> a.r],
                           reads |-> loaded.reads, applied |-> 1]

-----------------------------------------------------------------------------
(* process_create *)

Create == [tag |-> "Create"]
Create2(salt) == [tag |-> "Create2", salt |-> salt]

\* Salts: one (31 leading zero bytes) and a value with distinct high, middle
\* and low bytes.
SaltSamples ==
    {from_be_bytes([i \in 1..32 |-> IF i = 32 THEN 1 ELSE 0]),
     from_be_bytes([i \in 1..32 |-> IF i = 1 THEN 128 ELSE IF i = 32 THEN 2 ELSE IF i = 17 THEN 77 ELSE 0])}

Schemes == {Create} \cup {Create2(s) : s \in SaltSamples}

\* Init-code payloads: one of each length, every byte different.
InitCode == <<96, 128, 254, 0, 243, 17, 34, 51>>
Bytecodes == {SubSeq(InitCode, 1, n) : n \in 0..MaxCodeLen}

\* What the environment decides during one call: whether the backend's account
\* load and code lookup succeed, and whether the build checks arithmetic
\* overflow (a debug build panics, a release build wraps). A failed load or
\* lookup ends the call, so the choices after it are not enumerated.
IoChoices ==
    {[load |-> FALSE, code |-> TRUE, overflow_checks |-> TRUE],
     [load |-> TRUE, code |-> FALSE, overflow_checks |-> TRUE],
     [load |-> TRUE, code |-> TRUE, overflow_checks |-> TRUE],
     [load |-> TRUE, code |-> TRUE, overflow_checks |-> FALSE]}

Ok(payload, to, nonce) == [kind |-> "Ok", payload |-> payload, to |-> to, nonce |-> nonce]
Err(e) == [kind |-> "Err", err |-> e]
Panic(msg) == [kind |-> "Panic", msg |-> msg]

process_create_Create_bump(js, broadcast_sender, bytecode, c) ==
    LET caller == [c EXCEPT !.caller = broadcast_sender]
    IN  IF broadcast_sender \notin DOMAIN js
        THEN [js |-> js, call |-> caller, res |-> Panic("Account expected to be loaded"), reads |-> {}]
        ELSE [js |-> [js EXCEPT ![broadcast_sender].info.nonce = wrapping_add_one(@)],
              call |-> caller,
              res |-> Ok(bytecode, None, js[broadcast_sender].info.nonce),
              reads |-> {}]

\* CreateScheme::Create
process_create_Create(js, broadcast_sender, bytecode, c) ==
    LET caller == [c EXCEPT !.caller = broadcast_sender]
    IN  IF broadcast_sender \notin DOMAIN js
        THEN [js |-> js, call |-> caller, res |-> Panic("Account expected to be loaded"), reads |-> {}]
        ELSE [js |-> js,
              call |-> caller,
              res |-> Ok(bytecode, None, js[broadcast_sender].info.nonce),
              reads |-> {}]

deployer_check_fallback(info, backend, io) ==
    IF IsSome(info.code) /\ Unwrap(info.code) # <<>>
    THEN [verdict |-> "pass", reads |-> {}]
    ELSE IF ~io.code THEN [verdict |-> "DatabaseError", reads |-> {<<"code_by_hash", info.code_hash>>}]
    ELSE [verdict |-> IF backend.code[info.code_hash] = <<>> THEN "MissingCreate2Deployer" ELSE "pass",
          reads |-> {<<"code_by_hash", info.code_hash>>}]

\* The sanity check of the deployer's code: the journal's code field, and the
\* backend's code by hash only when the field is absent.
deployer_check(info, backend, io) ==
    IF IsSome(info.code)
    THEN [verdict |-> IF Unwrap(info.code) = <<>> THEN "MissingCreate2Deployer" ELSE "pass",
          reads |-> {}]
    ELSE IF ~io.code THEN [verdict |-> "DatabaseError", reads |-> {<<"code_by_hash", info.code_hash>>}]
    ELSE [verdict |-> IF backend.code[info.code_hash] = <<>> THEN "MissingCreate2Deployer" ELSE "pass",
          reads |-> {<<"code_by_hash", info.code_hash>>}]

\* The calldata of the proxy: salt.init_code
calldata(salt, bytecode) == to_big_endian(salt) \o bytecode

increment_nonce_touching(js, broadcast_sender, io) ==
    LET nonce == js[broadcast_sender].info.nonce
    IN  IF nonce = U64_MAX /\ io.overflow_checks
        THEN [ok |-> FALSE, js |-> js, nonce |-> nonce]
        ELSE [ok |-> TRUE,
              js |-> [js EXCEPT ![broadcast_sender].info.nonce = wrapping_add_one(nonce),
                                ![broadcast_sender].touched = TRUE],
              nonce |-> nonce]

\* account.info.nonce += 1 on the sender's account in the journal's state map.
increment_nonce(js, broadcast_sender, io) ==
    LET nonce == js[broadcast_sender].info.nonce
    IN  IF nonce = U64_MAX /\ io.overflow_checks
        THEN [ok |-> FALSE, js |-> js, nonce |-> nonce]
        ELSE [ok |-> TRUE,
              js |-> [js EXCEPT ![broadcast_sender].info.nonce = wrapping_add_one(nonce)],
              nonce |-> nonce]

rewrite_caller_early(c, verdict) == [c EXCEPT !.caller = DEFAULT_CREATE2_DEPLOYER]

\* call.caller = DEFAULT_CREATE2_DEPLOYER, reached only past the sanity check.
rewrite_caller(c, verdict) ==
    IF verdict = "pass" THEN [c EXCEPT !.caller = DEFAULT_CREATE2_DEPLOYER] ELSE c

\* CreateScheme::Create2 { salt }
process_create_Create2(js, backend, broadcast_sender, bytecode, c, io) ==
    LET loaded == load_account(js, backend, DEFAULT_CREATE2_DEPLOYER, io.load)
    IN  IF ~loaded.ok
        THEN [js |-> loaded.js, call |-> rewrite_caller(c, "DatabaseError"),
              res |-> Err("DatabaseError"), reads |-> loaded.reads]
        ELSE
        LET chk == deployer_check(loaded.js[DEFAULT_CREATE2_DEPLOYER].info, backend, io)
            reads == loaded.reads \cup chk.reads
            caller == rewrite_caller(c, chk.verdict)
        IN  IF chk.verdict # "pass"
            THEN [js |-> loaded.js, call |-> caller, res |-> Err(chk.verdict), reads |-> reads]
            ELSE IF broadcast_sender \notin DOMAIN loaded.js
            THEN [js |-> loaded.js, call |-> caller,
                  res |-> Panic("unwrap on None"), reads |-> reads]
            ELSE
            LET inc == increment_nonce(loaded.js, broadcast_sender, io)
            IN  IF ~inc.ok
                THEN [js |-> inc.js, call |-> caller,
                      res |-> Panic("attempt to add with overflow"), reads |-> reads]
                ELSE [js |-> inc.js, call |-> caller,
                      res |-> Ok(calldata(c.scheme.salt, bytecode),
                                 Some(DEFAULT_CREATE2_DEPLOYER), inc.nonce),
                      reads |-> reads]

process_create(js, backend, broadcast_sender, bytecode, c, io) ==
    IF c.scheme.tag = "Create"
    THEN process_create_Create(js, broadcast_sender, bytecode, c)
    ELSE process_create_Create2(js, backend, broadcast_sender, bytecode, c, io)

-----------------------------------------------------------------------------
(* The specification of the journal operations *)

NoCall == [op |-> "none"]

PureIdle ==
    /\ private_key = U256_ZERO
    /\ env = [tx |-> [gas_limit |-> 0], block |-> [gas_limit |-> 0]]
    /\ call_gas_limit = 0
    /\ address = ADDRESS_ZERO
    /\ out = NoCall

Init ==
    /\ state = << >>
    /\ db \in Backends
    /\ call = [caller |-> ScriptCaller, scheme |-> Create]
    /\ ret = NoCall
    /\ nops = 0
    /\ PureIdle

\* The inspector, or an earlier step of the run, loads an account.
LoadAccount ==
    /\ nops < MaxOps
    /\ \E addr \in Senders, io \in BOOLEAN :
          LET r == load_account(state, db, addr, io)
          IN  /\ state' = r.js
              /\ ret' = [op |-> "load_account", addr |-> addr, ok |-> r.ok, reads |-> r.reads]
    /\ nops' = nops + 1
    /\ UNCHANGED <<db, call, pureVars>>

WithJournaledAccount ==
    /\ nops < MaxOps
    /\ \E addr \in Senders, f \in Mutators, io \in BOOLEAN :
          LET r == with_journaled_account(state, db, addr, f, io)
          IN  /\ state' = r.js
              /\ ret' = [op |-> "with_journaled_account", addr |-> addr, f |-> f,
                         res |-> r.res, reads |-> r.reads, applied |-> r.applied]
    /\ nops' = nops + 1
    /\ UNCHANGED <<db, call, pureVars>>

ProcessCreate ==
    /\ nops < MaxOps
    /\ \E broadcast_sender \in Senders, bytecode \in Bytecodes, scheme \in Schemes, io \in IoChoices :
          LET request == [caller |-> ScriptCaller, scheme |-> scheme]
              r == process_create(state, db, broadcast_sender, bytecode, request, io)
          IN  /\ state' = r.js
              /\ call' = r.call
              /\ ret' = [op |-> "process_create", broadcast_sender |-> broadcast_sender,
                         bytecode |-> bytecode, scheme |-> scheme,
                         res |-> r.res, reads |-> r.reads]
    /\ nops' = nops + 1
    /\ UNCHANGED <<db, pureVars>>

Next == LoadAccount \/ WithJournaledAccount \/ ProcessCreate

Spec == Init /\ [][Next]_vars

-----------------------------------------------------------------------------
(* parse_private_key *)

\* Secp256k1::ORDER.to_be_bytes():
\* FFFFFFFF FFFFFFFF FFFFFFFF FFFFFFFE BAAEDCE6 AF48A03B BFD25E8C D0364141
ORDER_BE ==
    <<255, 255, 255, 255, 255, 255, 255, 255, 255, 255, 255, 255, 255, 255, 255, 254,
      186, 174, 220, 230, 175, 72, 160, 59, 191, 210, 94, 140, 208, 54, 65, 65>>

to_be_bytes(u) == Reverse(u)

\* SigningKey::from_bytes: a non-zero scalar below the group order, given as
\* 32 big-endian bytes.
SigningKey_from_bytes(bytes) ==
    IF Len(bytes) = 32 /\ bytes # Repeat(0, 32) /\ AddressLtFrom(bytes, ORDER_BE, 1)
    THEN [kind |-> "Ok", key |-> bytes]
    ELSE [kind |-> "Err", err |-> "signature error"]

parse_private_key_le(k) ==
    IF k = U256_ZERO THEN Err("Private key cannot be 0.")
    ELSE IF U256Lt(from_be_bytes(ORDER_BE), k)
    THEN Err("Private key must be less than the secp256k1 curve order")
    ELSE SigningKey_from_bytes(to_be_bytes(k))

parse_private_key(k) ==
    IF k = U256_ZERO THEN Err("Private key cannot be 0.")
    ELSE IF ~U256Lt(k, from_be_bytes(ORDER_BE))
    THEN Err("Private key must be less than the secp256k1 curve order")
    ELSE SigningKey_from_bytes(to_be_bytes(k))

\* Candidates around the bounds: 0, 1, 256, order - 1, order, order + 1,
\* 2^256 - 1, 2^248 - 1 (high byte below the order's, low bytes above), and two
\* values that leave the order at its 17th byte, one above and one below.
KeySamples ==
    {from_be_bytes(b) : b \in
      {Repeat(0, 32),
       [i \in 1..32 |-> IF i = 32 THEN 1 ELSE 0],
       [i \in 1..32 |-> IF i = 31 THEN 1 ELSE 0],
       [ORDER_BE EXCEPT ![32] = 64],
       ORDER_BE,
       [ORDER_BE EXCEPT ![32] = 66],
       Repeat(255, 32),
       [i \in 1..32 |-> IF i = 1 THEN 0 ELSE 255],
       [i \in 1..32 |-> IF i <= 16 THEN ORDER_BE[i] ELSE IF i = 17 THEN 187 ELSE 0],
       [i \in 1..32 |-> IF i <= 16 THEN ORDER_BE[i] ELSE IF i = 17 THEN 185 ELSE 255]}}

-----------------------------------------------------------------------------
(* check_if_fixed_gas_limit and is_potential_precompile *)

\* The gas limits are a u64 (transaction, call) and a U256 (block); the code
\* only widens and compares them, so they are kept as naturals.
check_if_fixed_gas_limit_ge(e, gas) ==
    e.tx.gas_limit > e.block.gas_limit /\ gas <= e.block.gas_limit /\ gas >= 2300

check_if_fixed_gas_limit(e, gas) ==
    e.tx.gas_limit > e.block.gas_limit /\ gas <= e.block.gas_limit /\ gas > 2300

GasSamples == {0, 2299, 2300, 2301, 30000}

is_potential_precompile(a) == AddressLt(a, with_last_byte(10)) /\ a # ADDRESS_ZERO

AddressSamples ==
    {ADDRESS_ZERO, with_last_byte(1), with_last_byte(9), with_last_byte(10),
     with_last_byte(11), with_last_byte(255),
     [i \in 1..20 |-> IF i = 19 THEN 1 ELSE 0],
     [i \in 1..20 |-> IF i = 19 THEN 1 ELSE IF i = 20 THEN 9 ELSE 0],
     [i \in 1..20 |-> IF i = 1 THEN 1 ELSE IF i = 20 THEN 5 ELSE 0],
     DEFAULT_CREATE2_DEPLOYER}

-----------------------------------------------------------------------------
(* The specification of the pure functions *)

InitPure ==
    /\ state = << >>
    /\ db = CHOOSE b \in Backends : b.basic[DEFAULT_CREATE2_DEPLOYER] = None /\ b.code[PROXY_HASH] = <<>>
    /\ call = [caller |-> ScriptCaller, scheme |-> Create]
    /\ ret = NoCall
    /\ nops = 0
    /\ private_key \in KeySamples
    /\ env \in [tx : [gas_limit : GasSamples], block : [gas_limit : GasSamples]]
    /\ call_gas_limit \in GasSamples
    /\ address \in AddressSamples
    /\ out = NoCall

ParsePrivateKey ==
    /\ out' = [op |-> "parse_private_key", res |-> parse_private_key(private_key)]
    /\ UNCHANGED <<journalVars, private_key, env, call_gas_limit, address>>

CheckIfFixedGasLimit ==
    /\ out' = [op |-> "check_if_fixed_gas_limit",
               res |-> check_if_fixed_gas_limit(env, call_gas_limit)]
    /\ UNCHANGED <<journalVars, private_key, env, call_gas_limit, address>>

IsPotentialPrecompile ==
    /\ out' = [op |-> "is_potential_precompile", res |-> is_potential_precompile(address)]
    /\ UNCHANGED <<journalVars, private_key, env, call_gas_limit, address>>

NextPure == ParsePrivateKey \/ CheckIfFixedGasLimit \/ IsPotentialPrecompile

SpecPure == InitPure /\ [][NextPure]_vars

-----------------------------------------------------------------------------
(* Numbers as the claims read them *)

RECURSIVE BorrowFrom(_, _, _, _)
\* The borrow out of the schoolbook subtraction a - b, least significant
\* digit first: 1 exactly when a < b as numbers.
BorrowFrom(a, b, i, borrow) ==
    IF i > Len(a) THEN borrow
    ELSE BorrowFrom(a, b, i + 1, IF a[i] - b[i] - borrow < 0 THEN 1 ELSE 0)

NumLess(a, b) == BorrowFrom(a, b, 1, 0) = 1
NumPositive(a) == \E i \in 1..Len(a) : a[i] # 0

curveOrder == Reverse(ORDER_BE)
KeyOf(b) == Reverse(b)

\* C6: parse_private_key(k) succeeds iff 1 <= k < curveOrder; it fails for 0
\* (as a zero key), for the order itself and everything above it (as a key
\* that is too large), and succeeds for 1 and for curveOrder - 1.
C6_KeyValidityBoundary ==
    out.op = "parse_private_key" =>
        /\ (out.res.kind = "Ok") <=> (NumPositive(private_key) /\ NumLess(private_key, curveOrder))
        /\ private_key = KeyOf(Repeat(0, 32)) => out.res = Err("Private key cannot be 0.")
        /\ ~NumLess(private_key, curveOrder) =>
              out.res = Err("Private key must be less than the secp256k1 curve order")
        /\ private_key = KeyOf(ORDER_BE) => out.res.kind = "Err"
        /\ private_key = KeyOf([ORDER_BE EXCEPT ![32] = 64]) => out.res.kind = "Ok"
        /\ private_key = KeyOf([i \in 1..32 |-> IF i = 32 THEN 1 ELSE 0]) => out.res.kind = "Ok"

C6_Witness ==
    /\ out.op = "parse_private_key"
    /\ private_key = KeyOf([ORDER_BE EXCEPT ![32] = 64])
    /\ out.res.kind = "Ok"

\* C7: check_if_fixed_gas_limit is true iff T > B and g <= B and g > 2300, for
\* block gas limit B, transaction gas limit T and call gas limit g; with T > B it
\* is false for g = 2300 and for g > B, and it is false whenever T <= B.
C7_GasLimitHeuristic ==
    out.op = "check_if_fixed_gas_limit" =>
        LET B == env.block.gas_limit
            T == env.tx.gas_limit
            g == call_gas_limit
        IN  /\ out.res <=> (T > B /\ g <= B /\ g > 2300)
            /\ (T > B /\ g = 2300) => ~out.res
            /\ (T > B /\ g > B) => ~out.res
            /\ T <= B => ~out.res

C7_Witness ==
    /\ out.op = "check_if_fixed_gas_limit"
    /\ env.tx.gas_limit > env.block.gas_limit
    /\ call_gas_limit = 2301
    /\ out.res = TRUE

\* C8: is_potential_precompile(a) is true iff 1 <= a < 10 for a read as a
\* big-endian number: the 19 leading bytes are zero and the last is in 1..9.
C8_PrecompileBoundary ==
    out.op = "is_potential_precompile" =>
        /\ out.res <=> ((\A i \in 1..19 : address[i] = 0) /\ address[20] \in 1..9)
        /\ address = ADDRESS_ZERO => ~out.res
        /\ address = with_last_byte(10) => ~out.res
        /\ (\E i \in 1..19 : address[i] # 0) => ~out.res

C8_Witness ==
    /\ out.op = "is_potential_precompile"
    /\ address = with_last_byte(9)
    /\ out.res = TRUE

-----------------------------------------------------------------------------
(* The journal operations as the claims read them *)

PROXY == DEFAULT_CREATE2_DEPLOYER

\* The step is a call of process_create / with_journaled_account.
ProcessCreateStep == nops' = nops + 1 /\ ret'.op = "process_create"
WithJournaledAccountStep == nops' = nops + 1 /\ ret'.op = "with_journaled_account"

\* The account the backend gives for an address, and an account's nonce
\* before a step: the journal's if loaded, else the backend's.
BackendAccount(a) ==
    IF IsSome(db.basic[a]) THEN [info |-> Unwrap(db.basic[a]), touched |-> FALSE]
    ELSE [info |-> [nonce |-> U64(0), code_hash |-> KECCAK_EMPTY, code |-> Some(<<>>)],
          touched |-> FALSE]
AccountBefore(a) == IF a \in DOMAIN state THEN state[a] ELSE BackendAccount(a)
NonceBefore(a) == AccountBefore(a).info.nonce

\* n + 1 as a number: a ninth digit when the eight digits of n are all 255.
Succ(n) == IF \A i \in 1..Len(n) : n[i] = 255 THEN Repeat(0, Len(n)) \o <<1>> ELSE AddOneFrom(n, 1)

JournalNonEmpty == IsSome(state[PROXY].info.code) /\ Unwrap(state[PROXY].info.code) # <<>>
JournalAbsent == state[PROXY].info.code = None
JournalEmpty == state[PROXY].info.code = Some(<<>>)
BackendNonEmpty == db.code[state[PROXY].info.code_hash] # <<>>

\* A Salted call that got the proxy account and an answer from the backend.
SaltedAnswered ==
    /\ ret.op = "process_create" /\ ret.scheme.tag = "Create2"
    /\ PROXY \in DOMAIN state
    /\ ret.res # Err("DatabaseError")

\* C1 as claimed: a Salted process_create fails with MissingCreate2Deployer
\* when the proxy has no code in the journal and the backend reports empty
\* code, and proceeds whenever either source reports non-empty code.
C1_Original ==
    SaltedAnswered =>
        /\ (~JournalNonEmpty /\ ~BackendNonEmpty) => ret.res = Err("MissingCreate2Deployer")
        /\ (JournalNonEmpty \/ BackendNonEmpty) => ret.res # Err("MissingCreate2Deployer")

\* C1 as amended: a Salted process_create fails with MissingCreate2Deployer
\* exactly when the journal's code field is present and empty (the backend is
\* then not asked) or absent with an empty code-by-hash answer; otherwise it
\* passes the check: the caller is rewritten to the proxy and the call returns
\* Ok, unless it panics on an unloaded sender or on a nonce of u64::MAX.
C1_MissingDeployerDetection ==
    SaltedAnswered =>
        /\ ret.res = Err("MissingCreate2Deployer")
              <=> (JournalEmpty \/ (JournalAbsent /\ ~BackendNonEmpty))
        /\ ~JournalAbsent => \A r \in ret.reads : r[1] # "code_by_hash"
        /\ ret.res # Err("MissingCreate2Deployer") =>
              /\ call.caller = PROXY
              /\ \/ ret.res.kind = "Ok"
                 \/ /\ ret.res.kind = "Panic"
                    /\ \/ ret.broadcast_sender \notin DOMAIN state
                       \/ state[ret.broadcast_sender].info.nonce = U64_MAX

C1_Witness ==
    /\ SaltedAnswered
    /\ JournalEmpty /\ BackendNonEmpty
    /\ ret.broadcast_sender \in DOMAIN state
    /\ ret.res = Err("MissingCreate2Deployer")

\* C2 as claimed: a successful Salted process_create returns the sender's
\* nonce n from before the call and leaves the sender's nonce at n + 1.
C2_Original ==
    [][(ProcessCreateStep /\ ret'.scheme.tag = "Create2" /\ ret'.res.kind = "Ok") =>
          LET s == ret'.broadcast_sender
          IN  /\ ret'.res.nonce = NonceBefore(s)
              /\ state'[s].info.nonce = Succ(NonceBefore(s))]_vars

\* C3: a Direct process_create returns the sender's nonce n and leaves it at
\* n; the payload is the init code, there is no destination override, and the
\* proxy is not consulted: nothing is read from the backend and nothing is
\* loaded into or changed in the journal.
C3_DirectNoncePassThrough ==
    [][(ProcessCreateStep /\ ret'.scheme.tag = "Create") =>
          LET s == ret'.broadcast_sender
          IN  /\ state' = state
              /\ ret'.reads = {}
              /\ call'.caller = s
              /\ s \in DOMAIN state =>
                    ret'.res = Ok(ret'.bytecode, None, state[s].info.nonce)]_vars

C3_Witness ==
    /\ ret.op = "process_create" /\ ret.scheme.tag = "Create"
    /\ ret.broadcast_sender = Alice
    /\ ret.res.kind = "Ok" /\ ret.res.nonce = U64_MAX
    /\ state[Alice].info.nonce = U64_MAX
    /\ PROXY \notin DOMAIN state
    /\ Len(ret.bytecode) = MaxCodeLen

\* The byte of weight 256^(32 - i) of s, for i = 1..32.
BigEndian32(s) == [i \in 1..32 |-> s[33 - i]]

\* C4: the payload of a successful Salted process_create is the 32-byte
\* big-endian encoding of the salt, leading zeros kept, followed by the init
\* code unchanged.
C4_CalldataLayout ==
    (ret.op = "process_create" /\ ret.scheme.tag = "Create2" /\ ret.res.kind = "Ok") =>
        LET payload == ret.res.payload
            s == ret.scheme.salt
            c == ret.bytecode
        IN  /\ payload = BigEndian32(s) \o c
            /\ Len(payload) = 32 + Len(c)
            /\ SubSeq(payload, 33, Len(payload)) = c
            /\ s = [i \in 1..32 |-> IF i = 1 THEN 1 ELSE 0] =>
                  /\ \A i \in 1..31 : payload[i] = 0
                  /\ payload[32] = 1

C4_Witness ==
    /\ ret.op = "process_create" /\ ret.scheme.tag = "Create2" /\ ret.res.kind = "Ok"
    /\ ret.scheme.salt = [i \in 1..32 |-> IF i = 1 THEN 1 ELSE 0]
    /\ Len(ret.bytecode) = MaxCodeLen
    /\ ret.res.payload[32] = 1

\* C5: with_journaled_account loads, touches, then mutates. When the load
\* fails the failure is returned, the mutator is not applied and the journal
\* is unchanged (the account is not in it, so not touched). On success the
\* account is loaded and touched, the mutator was applied once to the loaded
\* account and its result is returned.
C5_LoadTouchMutate ==
    [][WithJournaledAccountStep =>
          LET a == ret'.addr
              applied == Apply(ret'.f, AccountBefore(a))
          IN  /\ ret'.res.kind \in {"Ok", "Err"}
              /\ ret'.res.kind = "Err" =>
                    /\ ret'.res = Err("DatabaseError")
                    /\ ret'.applied = 0
                    /\ state' = state
                    /\ a \notin DOMAIN state'
              /\ ret'.res.kind = "Ok" =>
                    /\ a \in DOMAIN state'
                    /\ state'[a].touched
                    /\ ret'.applied = 1
                    /\ state'[a].info = applied.account.info
                    /\ ret'.res.r = applied.r
                    /\ \A b \in DOMAIN state : b # a => state'[b] = state[b]]_vars

C5_Witness ==
    /\ ret.op = "with_journaled_account" /\ ret.res.kind = "Ok"
    /\ ret.f.f = "get_nonce"
    /\ ret.reads # {}
    /\ state[ret.addr].touched
    /\ state[ret.addr].info = BackendAccount(ret.addr).info

\* C9: a Salted process_create that fails (MissingCreate2Deployer or a backend
\* error) leaves the request's caller as it was, leaves the sender's nonce
\* and every account already in the journal unchanged, and returns only the
\* error.
C9_FailureAborts ==
    [][(ProcessCreateStep /\ ret'.scheme.tag = "Create2" /\ ret'.res.kind = "Err") =>
          LET s == ret'.broadcast_sender
          IN  /\ call'.caller = ScriptCaller
              /\ call'.caller # PROXY /\ call'.caller # s
              /\ \A a \in DOMAIN state : state'[a] = state[a]
              /\ s \in DOMAIN state' => state'[s].info.nonce = NonceBefore(s)
              /\ ret'.res \in {Err("MissingCreate2Deployer"), Err("DatabaseError")}
              /\ DOMAIN ret'.res = {"kind", "err"}]_vars

C9_Witness ==
    /\ ret.op = "process_create" /\ ret.scheme.tag = "Create2"
    /\ ret.res = Err("MissingCreate2Deployer")
    /\ ret.broadcast_sender = Alice /\ Alice \in DOMAIN state
    /\ call.caller = ScriptCaller

NonceChanged(s) == s \in DOMAIN state' /\ state'[s].info.nonce # NonceBefore(s)

====
